---- MODULE Spec2Model ----
(***************************************************************************)
(* A model of source/binary.cpp: the SPIR-V binary API.                    *)
(*                                                                         *)
(* A 32-bit word is a 4-tuple of bytes, least significant byte first, so   *)
(* that no value ever needs more than TLC's 32-bit integers.  The words of *)
(* a binary in memory are 4-tuples of bytes in address order.              *)
(*                                                                         *)
(* Three specifications share the variables:                               *)
(*   Spec     spvBinaryToText (and a direct spvBinaryEndianness call) on   *)
(*            one binary;                                                  *)
(*   LiveSpec Spec with the fairness of a sequential call;                 *)
(*   EncSpec  the spvBinaryEncode* calls on one instruction, and the       *)
(*            decoding of a string operand back from its words.            *)
(***************************************************************************)
EXTENDS Integers, Sequences, FiniteSets, TLC

VARIABLES
  ndebug,       \* the build: TRUE when assert() is compiled out (NDEBUG)
  code,         \* binary->code, binary->wordCount = Len(code)
  args,         \* the other arguments of the call
  pc,           \* "idle", "loop", "done", "aborted"
  result,       \* the spv_result_t returned, "none" before the return
  endian,       \* spv_endianness_t endian of spvBinaryToText
  position,     \* position.index
  extInstType,  \* spv_ext_inst_type_t extInstType of spvBinaryToText
  sstream,      \* std::stringstream sstream: the tokens written to it
  sink,         \* the tokens written to the standard output
  text,         \* *pText: <<>> while unwritten, <<tokens>> once written
  readMax,      \* the highest index of binary->code read so far, -1 if none
  log,          \* per decoded instruction, what the decoders saw (history)
  inst,         \* the spv_instruction_t the encoders append to
  encLast,      \* the last spvBinaryEncode* call and what it returned
  decLast       \* the last string operand decoded back from inst

vars == <<ndebug, code, args, pc, result, endian, position, extInstType,
          sstream, sink, text, readMax, log, inst, encLast, decLast>>

decVars == <<ndebug, code, args, pc, result, endian, position, extInstType,
             sstream, sink, text, readMax, log>>

encVars == <<inst, encLast, decLast>>

-----------------------------------------------------------------------------
(* Bounds of the model. *)

\* The most instructions a generated module holds.
MaxInstructions == 2

\* The longest string handed to spvBinaryEncodeString.
MaxStrLen == 5

-----------------------------------------------------------------------------
(* Words and bytes. *)

ZeroWord == <<0, 0, 0, 0>>

WordOf(n) == <<n % 256, (n \div 256) % 256, 0, 0>>

Rev4(w) == <<w[4], w[3], w[2], w[1]>>

\* o32_host_order / I32_ENDIAN_HOST: the byte order of the host the library
\* is built for.  The model is of a little-endian build.
I32_ENDIAN_HOST == "little"

\* A uint32_t read from four bytes of memory, and the bytes of a uint32_t.
LoadWord(mem) == IF I32_ENDIAN_HOST = "little" THEN mem ELSE Rev4(mem)
BytesOfWord(w) == IF I32_ENDIAN_HOST = "little" THEN w ELSE Rev4(w)

spvFixWord(word, e) ==
  IF \/ (e = "little" /\ I32_ENDIAN_HOST = "big")
     \/ (e = "big" /\ I32_ENDIAN_HOST = "little")
  THEN Rev4(word)
  ELSE word

\* spvOpcodeSplit: the word count is the high half, the opcode the low half.
SplitWordCount(word) == word[3] + 256 * word[4]
SplitOpcode(word) == word[1] + 256 * word[2]

\* A value stored in a uint16_t.
U16(x) == x % 65536

MakeOpWord(wc, op) == <<op % 256, op \div 256, wc % 256, wc \div 256>>

RECURSIVE Flatten(_)
Flatten(ws) == IF ws = <<>> THEN <<>> ELSE BytesOfWord(Head(ws)) \o Flatten(Tail(ws))

\* The words a NUL-terminated string occupies: Len \div 4 + 1 of them, the
\* bytes in address order, zero padded.
StrWords(s) ==
  LET n == Len(s) \div 4 + 1
      b(i) == IF i <= Len(s) THEN s[i] ELSE 0
  IN [k \in 1..n |-> LoadWord(<<b(4*k-3), b(4*k-2), b(4*k-1), b(4*k)>>)]

-----------------------------------------------------------------------------
(* The description tables (opcode.h, operand.h, ext_inst.h): read-only      *)
(* lookup structures the decoder consults.  The model keeps a few entries   *)
(* of each shape.  An operandTypes array is zero padded: a position past    *)
(* the listed kinds holds SPV_OPERAND_TYPE_NONE.  An opcode whose tail      *)
(* repeats lists the repeated kinds after its fixed operands.               *)

OpNop == 0
OpName == 5
OpExtInstImport == 11
OpExtInst == 12
OpTypeVoid == 19
OpDecorate == 71
OpSwitch == 251

OpcodeTable ==
  { [name |-> "Nop", wordCount |-> 1, opcode |-> OpNop,
     operandTypes |-> <<>>],
    [name |-> "Name", wordCount |-> 3, opcode |-> OpName,
     operandTypes |-> <<"ID", "LITERAL_STRING">>],
    [name |-> "ExtInstImport", wordCount |-> 3, opcode |-> OpExtInstImport,
     operandTypes |-> <<"RESULT_ID", "LITERAL_STRING">>],
    [name |-> "ExtInst", wordCount |-> 5, opcode |-> OpExtInst,
     operandTypes |-> <<"ID", "RESULT_ID", "ID", "LITERAL_NUMBER", "ID">>],
    [name |-> "TypeVoid", wordCount |-> 2, opcode |-> OpTypeVoid,
     operandTypes |-> <<"RESULT_ID">>],
    [name |-> "Decorate", wordCount |-> 3, opcode |-> OpDecorate,
     operandTypes |-> <<"ID", "DECORATION">>],
    [name |-> "Switch", wordCount |-> 3, opcode |-> OpSwitch,
     operandTypes |-> <<"ID", "ID", "LITERAL", "ID">>] }

NoOpcodeDesc ==
  [name |-> "", wordCount |-> 0, opcode |-> 65535, operandTypes |-> <<>>]

\* spvOpcodeTableValueLookup: the entry of an opcode, NoOpcodeDesc when the
\* lookup fails.
spvOpcodeTableValueLookup(opcode) ==
  IF \E d \in OpcodeTable : d.opcode = opcode
  THEN CHOOSE d \in OpcodeTable : d.opcode = opcode
  ELSE NoOpcodeDesc

\* operandTypes[index], index counted from 0 as in the source.
TypeAt(types, index) ==
  IF index + 1 \in DOMAIN types THEN types[index + 1] ELSE "NONE"

\* spvOpcodeResultIdIndex: the position of the result id among the operand
\* kinds of an opcode, -1 when it has none.
spvOpcodeResultIdIndex(entry) ==
  IF \E i \in DOMAIN entry.operandTypes : entry.operandTypes[i] = "RESULT_ID"
  THEN (CHOOSE i \in DOMAIN entry.operandTypes :
          /\ entry.operandTypes[i] = "RESULT_ID"
          /\ \A j \in 1..(i - 1) : entry.operandTypes[j] # "RESULT_ID") - 1
  ELSE -1

OperandTable ==
  { [type |-> "DECORATION", value |-> 0, name |-> "RelaxedPrecision",
     operandTypes |-> <<>>],
    [type |-> "DECORATION", value |-> 1, name |-> "SpecId",
     operandTypes |-> <<"LITERAL_NUMBER">>] }

\* A null spv_operand_desc.
NoOperandDesc ==
  [type |-> "NONE", value |-> 0, name |-> "", operandTypes |-> <<>>]

\* spvOperandTableValueLookup: the entry of a value of an operand kind,
\* NoOperandDesc when the lookup fails.
spvOperandTableValueLookup(type, word) ==
  IF \E d \in OperandTable : d.type = type /\ WordOf(d.value) = word
  THEN CHOOSE d \in OperandTable : d.type = type /\ WordOf(d.value) = word
  ELSE NoOperandDesc

EnumerantTypes == {"DECORATION"}

NameOpenCL == <<79, 112, 101, 110, 67, 76, 46, 115, 116, 100, 46, 49, 50>>
NameGLSL == <<71, 76, 83, 76, 46, 115, 116, 100, 46, 52, 53, 48>>

\* spvExtInstImportTypeGet: the set an import name selects.
spvExtInstImportTypeGet(string) ==
  IF string = NameOpenCL THEN "OPENCL_STD_12"
  ELSE IF string = NameGLSL THEN "GLSL_STD_450"
  ELSE "NONE"

ExtInstTable ==
  { [type |-> "OPENCL_STD_12", extInst |-> 0, name |-> "acos"],
    [type |-> "OPENCL_STD_12", extInst |-> 1, name |-> "acosh"],
    [type |-> "GLSL_STD_450", extInst |-> 1, name |-> "Round"],
    [type |-> "GLSL_STD_450", extInst |-> 2, name |-> "RoundEven"] }

NoExtInstDesc == [type |-> "NONE", extInst |-> 0, name |-> ""]

\* spvExtInstTableValueLookup: the instruction of a number in a set,
\* NoExtInstDesc when the lookup fails.
spvExtInstTableValueLookup(type, word) ==
  IF \E d \in ExtInstTable : d.type = type /\ WordOf(d.extInst) = word
  THEN CHOOSE d \in ExtInstTable : d.type = type /\ WordOf(d.extInst) = word
  ELSE NoExtInstDesc

-----------------------------------------------------------------------------
(* Output.  A token is <<kind, text, bytes>>: a piece of fixed text, or a   *)
(* number or string printed from the bytes.                                 *)

Tok(k, t, b) == <<k, t, b>>
Txt(t) == Tok("txt", t, <<>>)

-----------------------------------------------------------------------------
(* spvBinaryOperandInfo *)

\* The assert(0) of the OpSwitch case is reported in `asserted`; the kind is
\* what the code after it computes.
spvBinaryOperandInfo(word, operandIndex, opcodeEntry, operandEntry) ==
  IF operandIndex < opcodeEntry.wordCount
  THEN LET type == TypeAt(opcodeEntry.operandTypes, operandIndex - 1)
           entry == spvOperandTableValueLookup(type, word)
       IN [type |-> type,
           operandEntry |->
             IF entry # NoOperandDesc /\ TypeAt(entry.operandTypes, 0) # "NONE"
             THEN entry ELSE operandEntry,
           asserted |-> FALSE]
  ELSE IF operandEntry # NoOperandDesc
  THEN [type |-> TypeAt(operandEntry.operandTypes,
                        operandIndex - opcodeEntry.wordCount),
        operandEntry |-> operandEntry,
        asserted |-> FALSE]
  ELSE IF opcodeEntry.opcode = OpSwitch
  THEN LET lastIndex == opcodeEntry.wordCount - 1
           index == lastIndex + ((operandIndex - lastIndex) % 2)
       IN [type |-> TypeAt(opcodeEntry.operandTypes, index),
           operandEntry |-> operandEntry,
           asserted |-> TRUE]
  ELSE [type |-> TypeAt(opcodeEntry.operandTypes, opcodeEntry.wordCount - 1),
        operandEntry |-> operandEntry,
        asserted |-> FALSE]

-----------------------------------------------------------------------------
(* spvBinaryDecodeOperand *)

\* strlen and the string at the start of a run of bytes; the bytes after the
\* run are zero.
CStrLen(bytes) ==
  LET nul == {i \in 1..Len(bytes) : bytes[i] = 0}
  IN IF nul = {} THEN Len(bytes)
     ELSE (CHOOSE i \in nul : \A j \in nul : i <= j) - 1

CStr(bytes) == SubSeq(bytes, 1, CStrLen(bytes))

\* words: the instruction's words from the operand on (words[0] is the
\* operand's first word).  Returns the result, the tokens written, the words
\* consumed (the advance of position->index) and *pExtInstType.
spvBinaryDecodeOperand(opcode, type, words, e, pExtInstType) ==
  LET w0 == IF words = <<>> THEN ZeroWord ELSE words[1]
      ok(tokens, n, ext) ==
        [result |-> "SPV_SUCCESS", tokens |-> tokens, consumed |-> n,
         extInstType |-> ext]
      fail(r, ext) ==
        [result |-> r, tokens |-> <<>>, consumed |-> 0, extInstType |-> ext]
  IN CASE type = "ID" ->
            ok(<<Tok("id", "%", spvFixWord(w0, e))>>, 1, pExtInstType)
       [] type = "RESULT_ID" ->
            ok(<<Tok("id", "%", spvFixWord(w0, e))>>, 1, pExtInstType)
       [] type = "LITERAL" ->
            ok(<<Tok("num", "", spvFixWord(w0, e))>>, 1, pExtInstType)
       [] type = "LITERAL_NUMBER" ->
            IF opcode = OpExtInst
            THEN LET extInst == spvExtInstTableValueLookup(pExtInstType, w0)
                 IN IF extInst = NoExtInstDesc
                    THEN fail("SPV_ERROR_INVALID_BINARY", pExtInstType)
                    ELSE ok(<<Tok("name", extInst.name, <<>>)>>, 1,
                            pExtInstType)
            ELSE ok(<<Tok("num", "", spvFixWord(w0, e))>>, 1, pExtInstType)
       [] type = "LITERAL_STRING" ->
            LET string == CStr(Flatten(words))
                stringOperandCount == (Len(string) \div 4) + 1
                ext == IF opcode = OpExtInstImport
                       THEN spvExtInstImportTypeGet(string)
                       ELSE pExtInstType
            IN IF opcode = OpExtInstImport /\ ext = "NONE"
               THEN fail("SPV_ERROR_INVALID_BINARY", ext)
               ELSE ok(<<Tok("str", "", string)>>, stringOperandCount, ext)
       [] type \in EnumerantTypes ->
            LET entry == spvOperandTableValueLookup(type, spvFixWord(w0, e))
            IN IF entry = NoOperandDesc
               THEN fail("SPV_ERROR_INVALID_TEXT", pExtInstType)
               ELSE ok(<<Tok("name", entry.name, <<>>)>>, 1, pExtInstType)
       [] OTHER -> fail("SPV_ERROR_INVALID_BINARY", pExtInstType)

-----------------------------------------------------------------------------
(* spvBinaryDecodeOpcode *)

\* pInst->words[index]: the words after those copied are zero (inst = {}).
InstWord(words, index) ==
  IF index + 1 \in DOMAIN words THEN words[index + 1] ELSE ZeroWord

\* pInst->words + index
InstWordsFrom(words, index) ==
  IF index < Len(words) THEN SubSeq(words, index + 1, Len(words)) ELSE <<>>

\* The operand loop of lines 358 to 374.  c: what the loop reads (words,
\* wordCount, entry, resultIdIndex, endian, ndebug); s: what it changes
\* (index, consumed, stream, noResult, operandEntry, extInstType, ops,
\* status).  Each definition takes the values computed so far as parameters.

\* A variant of IsResultId that is off by one.
IsResultIdOffByOne(resultIdIndex, index) == resultIdIndex = index

\* result_id_index == index - 1, lines 363, 369 and 372.
IsResultId(resultIdIndex, index) == resultIdIndex = index - 1

\* The rest of an iteration, given the resolved kind and the decoded operand.
OperandAfter(c, s, info, dec) ==
  LET isResult == IsResultId(c.resultIdIndex, s.index)
      noResult1 == IF ~isResult THEN Append(s.noResult, Txt(" "))
                   ELSE s.noResult
      aborts == info.asserted /\ ~c.ndebug
      op == [index |-> s.index, type |-> info.type,
             consumed |-> IF aborts THEN 0 ELSE dec.consumed,
             switchCase |-> info.asserted, nested |-> s.operandEntry.name,
             asResult |-> isResult,
             tokens |-> IF aborts THEN <<>> ELSE dec.tokens]
  IN IF aborts
     THEN [s EXCEPT !.status = "abort", !.noResult = noResult1,
                    !.ops = Append(s.ops, op)]
     ELSE IF dec.result # "SPV_SUCCESS"
     THEN [s EXCEPT !.status = "error", !.noResult = noResult1,
                    !.operandEntry = info.operandEntry,
                    !.extInstType = dec.extInstType,
                    !.ops = Append(s.ops, op)]
     ELSE [s EXCEPT
             !.index = U16(U16(s.index + U16(dec.consumed - 1)) + 1),
             !.consumed = s.consumed + dec.consumed,
             !.stream = IF isResult
                        THEN s.stream \o dec.tokens \o <<Txt(" = ")>>
                        ELSE s.stream,
             !.noResult = IF isResult THEN noResult1
                          ELSE noResult1 \o dec.tokens,
             !.operandEntry = info.operandEntry,
             !.extInstType = dec.extInstType,
             !.ops = Append(s.ops, op)]

OperandResolved(c, s, info) ==
  OperandAfter(c, s, info,
    spvBinaryDecodeOperand(c.entry.opcode, info.type,
                           InstWordsFrom(c.words, s.index), c.endian,
                           s.extInstType))

OperandOne(c, s) ==
  OperandResolved(c, s,
    spvBinaryOperandInfo(spvFixWord(InstWord(c.words, s.index), c.endian),
                         s.index, c.entry, s.operandEntry))

RECURSIVE OperandLoop(_, _)
OperandLoop(c, s) ==
  IF s.status # "ok" \/ ~(s.index < c.wordCount) THEN s
  ELSE OperandLoop(c, OperandOne(c, s))

\* What spvBinaryDecodeOpcode returns once the loop has ended in s.
DecodeOpcodeEnd(seen, s) ==
  [result |-> CASE s.status = "ok" -> "SPV_SUCCESS"
                [] s.status = "abort" -> "abort"
                [] OTHER -> "SPV_ERROR_INVALID_BINARY",
   advance |-> 1 + s.consumed,
   stream |-> IF s.status = "ok" THEN s.stream \o s.noResult ELSE s.stream,
   extInstType |-> s.extInstType,
   seen |-> seen,
   ops |-> s.ops]

\* Lines 340 to 378, given the split first word and its table entry.
DecodeOpcodeEntry(words, extType, e, nd, wordCount, opcode, opcodeEntry) ==
  IF opcodeEntry = NoOpcodeDesc \/ opcodeEntry.wordCount > wordCount
  THEN [result |-> "SPV_ERROR_INVALID_BINARY", advance |-> 0,
        stream |-> <<>>, extInstType |-> extType,
        seen |-> [wordCount |-> wordCount, opcode |-> opcode,
                  entry |-> opcodeEntry],
        ops |-> <<>>]
  ELSE DecodeOpcodeEnd(
         [wordCount |-> wordCount, opcode |-> opcode, entry |-> opcodeEntry],
         OperandLoop(
           [words |-> words, wordCount |-> wordCount, entry |-> opcodeEntry,
            resultIdIndex |-> spvOpcodeResultIdIndex(opcodeEntry),
            endian |-> e, ndebug |-> nd],
           [index |-> 1, consumed |-> 0, stream |-> <<>>,
            noResult |-> <<Tok("op", opcodeEntry.name, <<>>)>>,
            operandEntry |-> NoOperandDesc, extInstType |-> extType,
            ops |-> <<>>, status |-> "ok"]))

DecodeOpcodeSplit(words, extType, e, nd, first) ==
  DecodeOpcodeEntry(words, extType, e, nd, SplitWordCount(first),
                    SplitOpcode(first),
                    spvOpcodeTableValueLookup(SplitOpcode(first)))

\* words, extType: pInst->words and pInst->extInstType.  Returns the result
\* ("abort" when an assertion stops the process), the advance of
\* position->index, the tokens written to `stream`, pInst->extInstType, and
\* what was decoded.
spvBinaryDecodeOpcode(words, extType, e, nd) ==
  DecodeOpcodeSplit(words, extType, e, nd, spvFixWord(InstWord(words, 0), e))

-----------------------------------------------------------------------------
(* spvBinaryEndianness, spvBinaryHeaderGet, spvInstructionCopy *)

Max(a, b) == IF a >= b THEN a ELSE b

\* A variant of spvBinaryEndianness that tells the order from the first byte
\* alone.
spvBinaryEndiannessFirstByte(binary, pEndian) ==
  IF binary = <<>>
  THEN [result |-> "SPV_ERROR_INVALID_BINARY", endian |-> "none"]
  ELSE IF ~pEndian
  THEN [result |-> "SPV_ERROR_INVALID_POINTER", endian |-> "none"]
  ELSE IF binary[1][1] = 3
  THEN [result |-> "SPV_SUCCESS", endian |-> "little"]
  ELSE IF binary[1][1] = 7
  THEN [result |-> "SPV_SUCCESS", endian |-> "big"]
  ELSE [result |-> "SPV_ERROR_INVALID_BINARY", endian |-> "none"]

\* binary: the words in memory; pEndian: whether the pointer is given.
spvBinaryEndianness(binary, pEndian) ==
  IF binary = <<>>
  THEN [result |-> "SPV_ERROR_INVALID_BINARY", endian |-> "none"]
  ELSE IF ~pEndian
  THEN [result |-> "SPV_ERROR_INVALID_POINTER", endian |-> "none"]
  ELSE LET bytes == binary[1]
       IN IF bytes[1] = 3 /\ bytes[2] = 2 /\ bytes[3] = 35 /\ bytes[4] = 7
          THEN [result |-> "SPV_SUCCESS", endian |-> "little"]
          ELSE IF bytes[1] = 7 /\ bytes[2] = 35 /\ bytes[3] = 2 /\ bytes[4] = 3
          THEN [result |-> "SPV_SUCCESS", endian |-> "big"]
          ELSE [result |-> "SPV_ERROR_INVALID_BINARY", endian |-> "none"]

\* binary->code[i]: a word past the end of the buffer is whatever the memory
\* there holds, oob.
CodeWord(binary, i, oob) ==
  IF i < Len(binary) THEN LoadWord(binary[i + 1]) ELSE oob

\* The five header fields are read whatever the word count, once it is not 0.
spvBinaryHeaderGet(binary, e, oob) ==
  IF binary = <<>>
  THEN [result |-> "SPV_ERROR_INVALID_BINARY", magic |-> ZeroWord,
        version |-> ZeroWord, generator |-> ZeroWord, bound |-> ZeroWord,
        schema |-> ZeroWord]
  ELSE [result |-> "SPV_SUCCESS",
        magic |-> spvFixWord(CodeWord(binary, 0, oob), e),
        version |-> spvFixWord(CodeWord(binary, 1, oob), e),
        generator |-> spvFixWord(CodeWord(binary, 2, oob), e),
        bound |-> spvFixWord(CodeWord(binary, 3, oob), e),
        schema |-> spvFixWord(CodeWord(binary, 4, oob), e)]

\* spvInstructionCopy: wordCount words from binary->code[start] on, each
\* normalized, into a zeroed instruction.
spvInstructionCopy(binary, start, wordCount, e, oob) ==
  [k \in 1..wordCount |-> spvFixWord(CodeWord(binary, start + k - 1, oob), e)]

-----------------------------------------------------------------------------
(* The binaries the model decodes. *)

MagicValue == <<3, 2, 35, 7>>     \* 0x07230203, least significant byte first

HeaderValues ==
  <<MagicValue, <<0, 0, 1, 0>>, ZeroWord, WordOf(3), ZeroWord>>

\* A sequence of word values as stored in memory in byte order e.
Store(vals, e) ==
  [i \in DOMAIN vals |-> IF e = "little" THEN vals[i] ELSE Rev4(vals[i])]

Imports ==
  { <<MakeOpWord(6, OpExtInstImport), WordOf(1)>> \o StrWords(NameOpenCL),
    <<MakeOpWord(6, OpExtInstImport), WordOf(1)>> \o StrWords(NameGLSL) }

ExtInsts ==
  { <<MakeOpWord(5, OpExtInst), WordOf(1), WordOf(2), WordOf(1), WordOf(1)>>,
    <<MakeOpWord(6, OpExtInst), WordOf(1), WordOf(2), WordOf(1), WordOf(0),
      WordOf(4)>>,
    <<MakeOpWord(5, OpExtInst), WordOf(1), WordOf(2), WordOf(1), WordOf(7)>> }

\* The instructions a generated module is made of: well formed ones, and
\* ones with each kind of malformation the decoder tests for.
Menu ==
  Imports \cup ExtInsts \cup
  { <<MakeOpWord(1, OpNop)>>,
    <<MakeOpWord(2, OpTypeVoid), WordOf(1)>>,
    <<MakeOpWord(1, OpTypeVoid)>>,
    <<MakeOpWord(2, OpTypeVoid)>>,
    <<MakeOpWord(3, OpExtInstImport), WordOf(1)>> \o StrWords(<<97, 98>>),
    <<MakeOpWord(4, OpName), WordOf(1)>> \o StrWords(<<97, 98, 99, 100>>),
    <<MakeOpWord(3, OpName), WordOf(1), <<97, 98, 99, 100>> >>,
    <<MakeOpWord(3, OpName), WordOf(1)>>,
    <<MakeOpWord(3, OpSwitch), WordOf(1), WordOf(2)>>,
    <<MakeOpWord(5, OpSwitch), WordOf(1), WordOf(2), WordOf(7), WordOf(3)>>,
    <<MakeOpWord(3, OpDecorate), WordOf(1), WordOf(0)>>,
    <<MakeOpWord(4, OpDecorate), WordOf(1), WordOf(1), WordOf(5)>>,
    <<MakeOpWord(3, OpDecorate), WordOf(1), WordOf(9)>>,
    <<MakeOpWord(1, 255)>>,
    <<MakeOpWord(0, OpNop)>>,
    <<MakeOpWord(2, OpNop), WordOf(1)>> }

RECURSIVE Programs(_)
Programs(n) ==
  IF n = 0 THEN {<<>>}
  ELSE Programs(n - 1) \cup {p \o m : p \in Programs(n - 1), m \in Menu}

\* An import, any instruction, and a use of the imported set.
ImportPrograms == {a \o m \o x : a \in Imports, m \in Menu, x \in ExtInsts}

Modules ==
  {Store(HeaderValues \o p, e) :
     p \in Programs(MaxInstructions) \cup ImportPrograms,
     e \in {"little", "big"}}

\* One-word buffers with every first word made of the magic number's bytes,
\* the empty buffer, headers cut short, and modules whose first word is not
\* the magic number.
MagicBytes == {3, 2, 35, 7}

Probes ==
  {<< <<a, b, c, d>> >> : a \in MagicBytes, b \in MagicBytes,
                          c \in MagicBytes, d \in MagicBytes}
  \cup {<<>>}
  \cup {SubSeq(Store(HeaderValues, e), 1, n) :
          n \in 1..4, e \in {"little", "big"}}
  \cup {<<m>> \o Tail(Store(HeaderValues \o p, "little")) :
          m \in {<<239, 190, 173, 222>>, <<222, 173, 190, 239>>,
                 <<3, 2, 35, 0>>},
          p \in Programs(1)}

Binaries == Modules \cup Probes

\* What memory past the end of a buffer may hold.
OobWords == {ZeroWord, WordOf(1), <<97, 98, 99, 100>>}

\* The other arguments of spvBinaryToText: whether the three tables, pText
\* and pDiagnostic are given, and SPV_BINARY_TO_TEXT_OPTION_PRINT.
Args ==
  { [tables |-> TRUE, pText |-> TRUE, diag |-> TRUE, print |-> FALSE],
    [tables |-> TRUE, pText |-> FALSE, diag |-> TRUE, print |-> TRUE],
    [tables |-> TRUE, pText |-> TRUE, diag |-> TRUE, print |-> TRUE],
    [tables |-> TRUE, pText |-> FALSE, diag |-> TRUE, print |-> FALSE],
    [tables |-> FALSE, pText |-> TRUE, diag |-> TRUE, print |-> FALSE],
    [tables |-> TRUE, pText |-> TRUE, diag |-> FALSE, print |-> FALSE] }

NoArgs == [tables |-> FALSE, pText |-> FALSE, diag |-> FALSE, print |-> FALSE]

-----------------------------------------------------------------------------
(* The encoders' instruction. *)

\* The ceiling on an instruction's word count, and the length of
\* spv_instruction_t.words.  libspirv.h sets 0xffff, the largest uint16_t;
\* the model scales the ceiling down so that it is reached, and the width of
\* spv_instruction_t.wordCount with it.
SPV_LIMIT_INSTRUCTION_WORD_COUNT_MAX == 3

\* A value stored in spv_instruction_t.wordCount.
WordCountT(x) == x % (SPV_LIMIT_INSTRUCTION_WORD_COUNT_MAX + 1)

\* spv_instruction_t inst = {}
Inst0 ==
  [wordCount |-> 0,
   words |-> [i \in 1..SPV_LIMIT_INSTRUCTION_WORD_COUNT_MAX |-> ZeroWord]]

\* overrun: some call so far succeeded although the words it appends do not
\* fit under the ceiling (history).
NoEnc ==
  [op |-> "none", before |-> 0, need |-> 0, str |-> <<>>, result |-> "none",
   overrun |-> FALSE]

NoDec == [valid |-> FALSE, from |-> 0, string |-> <<>>, consumed |-> 0]

-----------------------------------------------------------------------------
(* spvBinaryToText *)

HeaderTokens(header) ==
  << Txt("; SPIR-V\n"),
     Tok("num", "; Version: ", header.version),
     Tok("gen", "; Generator: ", header.generator),
     Tok("num", "; Bound: ", header.bound),
     Tok("num", "; Schema: ", header.schema) >>

\* The argument checks, the endianness, the header and the comment block:
\* lines 386 to 432.  e, header: what spvBinaryEndianness and
\* spvBinaryHeaderGet return.
ToTextBeginWith(binary, a, e, header) ==
  IF binary = <<>> THEN "SPV_ERROR_INVALID_BINARY"
  ELSE IF ~a.tables THEN "SPV_ERROR_INVALID_TABLE"
  ELSE IF a.pText /\ a.print THEN "SPV_ERROR_INVALID_POINTER"
  ELSE IF ~a.pText /\ ~a.print THEN "SPV_ERROR_INVALID_POINTER"
  ELSE IF ~a.diag THEN "SPV_ERROR_INVALID_DIAGNOSTIC"
  ELSE IF e.result # "SPV_SUCCESS" THEN "SPV_ERROR_INVALID_BINARY"
  ELSE IF header.result # "SPV_SUCCESS" THEN "SPV_ERROR_INVALID_BINARY"
  ELSE "none"

\* The reads of binary->code up to the return or the loop: none before the
\* endianness is looked for, word 0 for it, words 0 to 4 for the header.
ToTextBeginReads(binary, a, e) ==
  IF \/ binary = <<>> \/ ~a.tables \/ (a.pText /\ a.print)
     \/ (~a.pText /\ ~a.print) \/ ~a.diag
  THEN -1
  ELSE IF e.result # "SPV_SUCCESS" THEN 0
  ELSE 4

\* A variant of StreamIsSink: the stream is the standard output whatever the
\* options.
StreamIsSinkAlways(a) == TRUE

\* if (print) stream = out_stream(), lines 412 to 416: the stream is the
\* standard output in print mode, sstream otherwise.
StreamIsSink(a) == a.print

BeginUpdate(a, r, e, header, read) ==
  /\ args' = a
  /\ result' = r
  /\ endian' = IF r = "none" THEN e.endian ELSE "none"
  /\ readMax' = read
  /\ pc' = IF r = "none" THEN "loop" ELSE "done"
  /\ position' = IF r = "none" THEN 5 ELSE 0
  /\ sink' = IF r = "none" /\ StreamIsSink(a)
             THEN sink \o HeaderTokens(header) ELSE sink
  /\ sstream' = IF r = "none" /\ ~StreamIsSink(a)
                THEN sstream \o HeaderTokens(header) ELSE sstream

BeginWith(a, e, header) ==
  BeginUpdate(a, ToTextBeginWith(code, a, e, header), e, header,
              ToTextBeginReads(code, a, e))

BeginEndian(a, oob, e) ==
  BeginWith(a, e, spvBinaryHeaderGet(code, e.endian, oob))

spvBinaryToTextBegin ==
  /\ pc = "idle"
  /\ \E a \in Args, oob \in OobWords :
       BeginEndian(a, oob, spvBinaryEndianness(code, TRUE))
  /\ extInstType' = "NONE"
  /\ UNCHANGED <<ndebug, code, text, log>>
  /\ UNCHANGED encVars

\* A variant of InvalidWordCount with the test dropped.
InvalidWordCountUnchecked(index, wordCount, positionIndex) == FALSE

\* The test of lines 451 to 453: the cursor is not at the end of the
\* instruction that started at index.
InvalidWordCount(index, wordCount, positionIndex) ==
  (index + wordCount) # positionIndex

\* extInstType = inst.extInstType, line 449, reached when the decoder
\* returned success.
CarryExtInstType(ext, d) ==
  IF d.result = "SPV_SUCCESS" THEN d.extInstType ELSE ext

\* One iteration of the module loop, lines 433 to 456, given the words copied
\* and what spvBinaryDecodeOpcode returned.
ToTextStepEnd(pos, ext, wordCount, opcode, words, d) ==
  [result |-> CASE d.result = "abort" -> "abort"
                [] d.result # "SPV_SUCCESS" -> "SPV_ERROR_INVALID_BINARY"
                [] InvalidWordCount(pos, wordCount, pos + d.advance) ->
                     "SPV_ERROR_INVALID_BINARY"
                [] OTHER -> "none",
   position |-> pos + d.advance,
   extInstType |-> CarryExtInstType(ext, d),
   readMax |-> pos + Max(wordCount, 1) - 1,
   out |-> IF /\ d.result = "SPV_SUCCESS"
              /\ ~InvalidWordCount(pos, wordCount, pos + d.advance)
           THEN d.stream \o <<Txt("\n")>> ELSE d.stream,
   entry |-> [start |-> pos, wordCount |-> wordCount, opcode |-> opcode,
              words |-> words, seen |-> d.seen, decoded |-> d.result,
              extBefore |-> ext, extAfter |-> d.extInstType,
              endPos |-> pos + d.advance, line |-> d.stream, ops |-> d.ops]]

ToTextStepCopied(pos, e, ext, nd, wordCount, opcode, words) ==
  ToTextStepEnd(pos, ext, wordCount, opcode, words,
                spvBinaryDecodeOpcode(words, ext, e, nd))

ToTextStepSplit(binary, pos, e, ext, nd, oob, first) ==
  ToTextStepCopied(pos, e, ext, nd, SplitWordCount(first), SplitOpcode(first),
    spvInstructionCopy(binary, pos, SplitWordCount(first), e, oob))

ToTextStep(binary, pos, e, ext, nd, oob) ==
  ToTextStepSplit(binary, pos, e, ext, nd, oob,
                  spvFixWord(CodeWord(binary, pos, oob), e))

LoopUpdate(t) ==
  /\ position' = t.position
  /\ extInstType' = t.extInstType
  /\ readMax' = Max(readMax, t.readMax)
  /\ sink' = IF StreamIsSink(args) THEN sink \o t.out ELSE sink
  /\ sstream' = IF StreamIsSink(args) THEN sstream ELSE sstream \o t.out
  /\ log' = Append(log, t.entry)
  /\ pc' = CASE t.result = "none" -> "loop"
             [] t.result = "abort" -> "aborted"
             [] OTHER -> "done"
  /\ result' = IF t.result = "abort" THEN "none" ELSE t.result

spvBinaryToTextLoop ==
  /\ pc = "loop"
  /\ position < Len(code)
  /\ \E oob \in OobWords :
       LoopUpdate(ToTextStep(code, position, endian, extInstType, ndebug, oob))
  /\ UNCHANGED <<ndebug, code, args, endian, text>>
  /\ UNCHANGED encVars

\* After the loop: lines 458 to 470.
spvBinaryToTextEnd ==
  /\ pc = "loop"
  /\ ~(position < Len(code))
  /\ text' = IF ~args.print THEN <<sstream>> ELSE text
  /\ result' = "SPV_SUCCESS"
  /\ pc' = "done"
  /\ UNCHANGED <<ndebug, code, args, endian, position, extInstType, sstream,
                 sink, readMax, log>>
  /\ UNCHANGED encVars

EndiannessUpdate(pEndian, e) ==
  /\ result' = e.result
  /\ endian' = e.endian
  /\ readMax' = IF code # <<>> /\ pEndian THEN 0 ELSE -1
  /\ args' = [NoArgs EXCEPT !.pText = pEndian]

\* A call of spvBinaryEndianness on the binary alone; args.pText records
\* whether pEndian was given.
spvBinaryEndiannessCall ==
  /\ pc = "idle"
  /\ \E pEndian \in BOOLEAN :
       EndiannessUpdate(pEndian, spvBinaryEndianness(code, pEndian))
  /\ pc' = "endianness"
  /\ UNCHANGED <<ndebug, code, position, extInstType, sstream, sink, text,
                 log>>
  /\ UNCHANGED encVars

Init ==
  /\ ndebug \in BOOLEAN
  /\ code \in Binaries
  /\ args = NoArgs
  /\ pc = "idle"
  /\ result = "none"
  /\ endian = "none"
  /\ position = 0
  /\ extInstType = "NONE"
  /\ sstream = <<>>
  /\ sink = <<>>
  /\ text = <<>>
  /\ readMax = -1
  /\ log = <<>>
  /\ inst = Inst0
  /\ encLast = NoEnc
  /\ decLast = NoDec

Next ==
  \/ spvBinaryToTextBegin
  \/ spvBinaryToTextLoop
  \/ spvBinaryToTextEnd
  \/ spvBinaryEndiannessCall

Spec == Init /\ [][Next]_vars

-----------------------------------------------------------------------------
(* spvBinaryEncodeU32, spvBinaryEncodeU64, spvBinaryEncodeString *)

Unflatten(bytes) ==
  [k \in 1..(Len(bytes) \div 4) |->
     LoadWord(<<bytes[4*k - 3], bytes[4*k - 2], bytes[4*k - 1], bytes[4*k]>>)]

\* strncpy(dest, str, length) with dest the byte at offset of the words.
StrNCpy(words, offset, str) ==
  Unflatten([i \in 1..(4 * Len(words)) |->
               IF i > offset /\ i <= offset + Len(str)
               THEN str[i - offset]
               ELSE Flatten(words)[i]])

spvBinaryEncodeU32(value, pInst) ==
  IF pInst.wordCount + 1 > SPV_LIMIT_INSTRUCTION_WORD_COUNT_MAX
  THEN [result |-> "SPV_ERROR_INVALID_TEXT", inst |-> pInst]
  ELSE [result |-> "SPV_SUCCESS",
        inst |-> [wordCount |-> WordCountT(pInst.wordCount + 1),
                  words |-> [pInst.words EXCEPT ![pInst.wordCount + 1] = value]]]

\* value: the eight bytes of a uint64_t, least significant first.
spvBinaryEncodeU64(value, pInst) ==
  IF pInst.wordCount + 2 > SPV_LIMIT_INSTRUCTION_WORD_COUNT_MAX
  THEN [result |-> "SPV_ERROR_INVALID_TEXT", inst |-> pInst]
  ELSE [result |-> "SPV_SUCCESS",
        inst |-> [wordCount |-> WordCountT(pInst.wordCount + 2),
                  words |-> [pInst.words EXCEPT
                               ![pInst.wordCount + 1] = SubSeq(value, 1, 4),
                               ![pInst.wordCount + 2] = SubSeq(value, 5, 8)]]]

spvBinaryEncodeString(str, pInst) ==
  IF 4 * pInst.wordCount + Len(str) > 4 * SPV_LIMIT_INSTRUCTION_WORD_COUNT_MAX
  THEN [result |-> "SPV_ERROR_INVALID_TEXT", inst |-> pInst]
  ELSE [result |-> "SPV_SUCCESS",
        inst |-> [wordCount |->
                    WordCountT(pInst.wordCount + WordCountT((Len(str) \div 4) + 1)),
                  words |-> StrNCpy(pInst.words, 4 * pInst.wordCount, str)]]

\* The values and strings the encoders are called with.
U32Values == {<<17, 34, 51, 68>>}
U64Values == {<<1, 2, 3, 4, 5, 6, 7, 8>>}
StrOfLen(n) == [i \in 1..n |-> 96 + i]
Strings == {StrOfLen(n) : n \in 0..MaxStrLen}

EncUpdate(op, need, str, r) ==
  /\ inst' = r.inst
  /\ encLast' = [op |-> op, before |-> inst.wordCount, need |-> need,
                 str |-> str, result |-> r.result,
                 overrun |-> \/ encLast.overrun
                             \/ /\ r.result = "SPV_SUCCESS"
                                /\ inst.wordCount + need >
                                     SPV_LIMIT_INSTRUCTION_WORD_COUNT_MAX]
  /\ decLast' = NoDec
  /\ UNCHANGED decVars

EncodeU32 ==
  \E value \in U32Values :
    EncUpdate("u32", 1, <<>>, spvBinaryEncodeU32(value, inst))

EncodeU64 ==
  \E value \in U64Values :
    EncUpdate("u64", 2, <<>>, spvBinaryEncodeU64(value, inst))

EncodeString ==
  \E str \in Strings :
    EncUpdate("string", (Len(str) \div 4) + 1, str,
              spvBinaryEncodeString(str, inst))

DecUpdate(d) ==
  /\ decLast' = [valid |-> TRUE, from |-> encLast.before,
                 string |-> d.tokens[1][3], consumed |-> d.consumed]
  /\ UNCHANGED <<inst, encLast>>
  /\ UNCHANGED decVars

\* spvBinaryDecodeOperand on the words the last spvBinaryEncodeString wrote:
\* pInst->words + before.  The memory after pInst->words holds oob.
DecodeStringOperand ==
  /\ encLast.op = "string"
  /\ encLast.result = "SPV_SUCCESS"
  /\ ~decLast.valid
  /\ \E oob \in OobWords :
       DecUpdate(spvBinaryDecodeOperand(OpName, "LITERAL_STRING",
                   InstWordsFrom(inst.words, encLast.before) \o <<oob>>,
                   "little", "NONE"))

EncInit ==
  /\ ndebug = FALSE
  /\ code = <<>>
  /\ args = NoArgs
  /\ pc = "idle"
  /\ result = "none"
  /\ endian = "none"
  /\ position = 0
  /\ extInstType = "NONE"
  /\ sstream = <<>>
  /\ sink = <<>>
  /\ text = <<>>
  /\ readMax = -1
  /\ log = <<>>
  /\ inst = Inst0
  /\ encLast = NoEnc
  /\ decLast = NoDec

EncNext ==
  \/ EncodeU32
  \/ EncodeU64
  \/ EncodeString
  \/ DecodeStringOperand

EncSpec == EncInit /\ [][EncNext]_vars

-----------------------------------------------------------------------------
(* The properties checked. *)

\* The arguments pass the checks of lines 386 to 394.
ValidArgs ==
  /\ code # <<>>
  /\ args.tables
  /\ args.diag
  /\ args.pText = ~args.print

ToTextReturned == pc = "done"

ToTextSucceeded == pc = "done" /\ result = "SPV_SUCCESS"

ToTextFailed == pc = "done" /\ result # "SPV_SUCCESS"

\* C1: spvBinaryToText never reads binary->code at an index at or past the
\* buffer's word count, whatever the length of the buffer.
C1_NoReadPastEnd == readMax < Len(code)

\* The declared word count of logged instruction i is at least the minimum
\* the opcode table gives its opcode.
C2_MinOk(i) ==
  spvOpcodeTableValueLookup(log[i].opcode) # NoOpcodeDesc
    => spvOpcodeTableValueLookup(log[i].opcode).wordCount <= log[i].wordCount

\* The cursor after instruction i is its start plus its declared word count.
C2_CursorOk(i) == log[i].endPos = log[i].start + log[i].wordCount

\* C2: spvBinaryToText succeeds only if every instruction declares at least
\* its opcode's minimum word count and leaves the cursor at its start plus
\* its declared word count; an instruction that declares less than the
\* minimum, or that is decoded to another cursor, ends the call with
\* SPV_ERROR_INVALID_BINARY.
C2_WordCountsChecked ==
  /\ ToTextSucceeded =>
       \A i \in DOMAIN log :
         /\ spvOpcodeTableValueLookup(log[i].opcode) # NoOpcodeDesc
         /\ C2_MinOk(i)
         /\ C2_CursorOk(i)
  /\ \A i \in DOMAIN log :
       (~C2_MinOk(i) \/ (log[i].decoded = "SPV_SUCCESS" /\ ~C2_CursorOk(i)))
         => /\ i = Len(log)
            /\ pc = "done"
            /\ result = "SPV_ERROR_INVALID_BINARY"

\* A module is decoded with success, one of its instructions holding a
\* string operand that fills two words.
C2_Witness ==
  /\ ToTextSucceeded
  /\ \E i \in DOMAIN log :
       /\ log[i].opcode = OpName
       /\ log[i].wordCount = 4
       /\ \E k \in DOMAIN log[i].ops : log[i].ops[k].consumed = 2

\* The import names and the sets they select, and the numbers each set
\* registers, as the specification lists them.
C3_KnownImports ==
  { <<NameOpenCL, "OPENCL_STD_12">>, <<NameGLSL, "GLSL_STD_450">> }

\* Logged instruction i holds the name n, NUL terminated, as its string.
C3_Names(i, n) ==
  /\ Len(log[i].words) >= 2 + Len(StrWords(n))
  /\ SubSeq(log[i].words, 3, 2 + Len(StrWords(n))) = StrWords(n)

C3_Registered(type, word) ==
  \E d \in ExtInstTable : d.type = type /\ WordOf(d.extInst) = word

C3_NameOf(type, word) ==
  (CHOOSE d \in ExtInstTable : d.type = type /\ WordOf(d.extInst) = word).name

C3_Rejected(i) ==
  /\ log[i].decoded = "SPV_ERROR_INVALID_BINARY"
  /\ i = Len(log)
  /\ pc = "done"
  /\ result = "SPV_ERROR_INVALID_BINARY"

\* An OpExtInstImport whose word count reaches its name.
C3_Import(i) ==
  IF \E k \in C3_KnownImports : C3_Names(i, k[1])
  THEN \E k \in C3_KnownImports :
         /\ C3_Names(i, k[1])
         /\ log[i].decoded = "SPV_SUCCESS"
         /\ log[i].extAfter = k[2]
  ELSE C3_Rejected(i)

\* An OpExtInst whose word count reaches its instruction number.
C3_Use(i) ==
  IF C3_Registered(log[i].extBefore, log[i].words[5])
  THEN /\ log[i].decoded = "SPV_SUCCESS"
       /\ log[i].extAfter = log[i].extBefore
       /\ \E t \in DOMAIN log[i].line :
            log[i].line[t] =
              Tok("name", C3_NameOf(log[i].extBefore, log[i].words[5]), <<>>)
  ELSE C3_Rejected(i)

\* What C3 says of logged instruction i.
C3_Flow(i) ==
  /\ log[i].extBefore = IF i = 1 THEN "NONE" ELSE log[i - 1].extAfter
  /\ CASE log[i].opcode = OpExtInstImport /\ log[i].wordCount >= 3
            -> C3_Import(i)
       [] log[i].opcode = OpExtInst /\ log[i].wordCount >= 5
            -> C3_Use(i)
       [] OTHER -> log[i].extAfter = log[i].extBefore

\* C3: the active extended instruction set is none at the first instruction,
\* is set by an OpExtInstImport with a recognized name and stays in effect
\* for the later instructions; an OpExtInst with a number registered in the
\* active set renders that instruction's name; an import with an unrecognized
\* name, and an OpExtInst with a number the active set does not register or
\* with no set active, end the call with SPV_ERROR_INVALID_BINARY.
C3_ExtInstSetFlow == \A i \in DOMAIN log : C3_Flow(i)

\* The same for the modules stored in the host's byte order.
C3_HostOrderFlow == endian = I32_ENDIAN_HOST => \A i \in DOMAIN log : C3_Flow(i)

EncCalled == encLast.op # "none"

\* C4: an encode call that would take the word count past
\* SPV_LIMIT_INSTRUCTION_WORD_COUNT_MAX fails with SPV_ERROR_INVALID_TEXT and
\* leaves the word count as it was, a call that takes it to exactly the
\* maximum succeeds, and the word count never exceeds the maximum.
C4_CeilingEnforced ==
  /\ (EncCalled /\ encLast.before + encLast.need >
                     SPV_LIMIT_INSTRUCTION_WORD_COUNT_MAX)
       => /\ encLast.result = "SPV_ERROR_INVALID_TEXT"
          /\ inst.wordCount = encLast.before
  /\ (EncCalled /\ encLast.before + encLast.need =
                     SPV_LIMIT_INSTRUCTION_WORD_COUNT_MAX)
       => /\ encLast.result = "SPV_SUCCESS"
          /\ inst.wordCount = SPV_LIMIT_INSTRUCTION_WORD_COUNT_MAX
  /\ inst.wordCount <= SPV_LIMIT_INSTRUCTION_WORD_COUNT_MAX

\* The same for spvBinaryEncodeU32 and spvBinaryEncodeU64 alone.
C4_CeilingEnforcedU32U64 == encLast.op \in {"u32", "u64"} => C4_CeilingEnforced

\* What C5 says of the last spvBinaryEncodeString call and of the operand
\* decoded back from its words.
C5_RoundTrip ==
  /\ (encLast.op = "string" /\ encLast.result = "SPV_SUCCESS")
       => inst.wordCount = encLast.before + (Len(encLast.str) \div 4) + 1
  /\ decLast.valid
       => /\ decLast.string = encLast.str
          /\ decLast.consumed = (Len(encLast.str) \div 4) + 1

\* C5: a string encoded with spvBinaryEncodeString and decoded back as a
\* literal string operand from the words written is the same string, and the
\* encoder's advance of the word count and the words the decoder consumes
\* are both Len \div 4 + 1.
C5_StringRoundTrip == C5_RoundTrip

\* The same while every successful call so far fitted under the ceiling.
C5_RoundTripUnderCeiling == ~encLast.overrun => C5_RoundTrip

\* Logged instruction i was decoded with success and accepted by the loop.
C6_Decoded(i) == log[i].decoded = "SPV_SUCCESS" /\ C2_CursorOk(i)

\* The operands of instruction i cover its words after the first, each word
\* in one operand, in order.
C6_OperandsCoverWords(i) ==
  /\ log[i].ops # <<>> => log[i].ops[1].index = 1
  /\ \A k \in DOMAIN log[i].ops :
       log[i].ops[k].index + log[i].ops[k].consumed =
         IF k = Len(log[i].ops) THEN log[i].wordCount
         ELSE log[i].ops[k + 1].index
  /\ log[i].ops = <<>> => log[i].wordCount = 1

\* s is the NUL-terminated string at the start of the bytes.
C6_IsStringOf(s, bytes) ==
  /\ Len(s) < Len(bytes)
  /\ SubSeq(bytes, 1, Len(s)) = s
  /\ bytes[Len(s) + 1] = 0
  /\ \A j \in DOMAIN s : s[j] # 0

\* Operand o of an instruction with these words is rendered as one token,
\* from the words it covers.
C6_Rendered(words, o) ==
  /\ Len(o.tokens) = 1
  /\ CASE o.type \in {"ID", "RESULT_ID"} ->
            /\ o.consumed = 1
            /\ o.tokens[1] = Tok("id", "%", words[o.index + 1])
       [] o.type = "LITERAL" ->
            /\ o.consumed = 1
            /\ o.tokens[1] = Tok("num", "", words[o.index + 1])
       [] o.type = "LITERAL_STRING" ->
            /\ o.tokens[1][1] = "str"
            /\ o.consumed = (Len(o.tokens[1][3]) \div 4) + 1
            /\ C6_IsStringOf(o.tokens[1][3],
                 Flatten(SubSeq(words, o.index + 1, o.index + o.consumed)))
       [] OTHER ->
            /\ o.consumed = 1
            /\ o.tokens[1][1] \in {"name", "num"}

\* The operands other than the one at word r, each after one space.
RECURSIVE C6_Others(_, _)
C6_Others(ops, r) ==
  IF ops = <<>> THEN <<>>
  ELSE (IF Head(ops).index = r THEN <<>>
        ELSE <<Txt(" ")>> \o Head(ops).tokens)
       \o C6_Others(Tail(ops), r)

\* The result id and " = ", when the opcode declares a result id: the operand
\* at word r.
C6_ResultPart(ops, r) ==
  IF \E k \in DOMAIN ops : ops[k].index = r
  THEN (CHOOSE o \in {ops[k] : k \in DOMAIN ops} : o.index = r).tokens
       \o <<Txt(" = ")>>
  ELSE <<>>

C6_ExpectedLine(entry, ops) ==
  C6_ResultPart(ops, spvOpcodeResultIdIndex(entry) + 1)
  \o <<Tok("op", entry.name, <<>>)>>
  \o C6_Others(ops, spvOpcodeResultIdIndex(entry) + 1)

\* C6: the line of a decoded instruction is the result id and " = " when the
\* opcode declares one, wherever it sits among the words, then Op and the
\* opcode's name, then every other operand once, in the order of the binary,
\* each after one space; a multi-word operand is rendered once and covers
\* all its words.
C6_LineFormat ==
  \A i \in DOMAIN log :
    C6_Decoded(i) =>
      /\ C6_OperandsCoverWords(i)
      /\ \A k \in DOMAIN log[i].ops : C6_Rendered(log[i].words, log[i].ops[k])
      /\ spvOpcodeResultIdIndex(spvOpcodeTableValueLookup(log[i].opcode)) >= 0
           => \E k \in DOMAIN log[i].ops :
                /\ log[i].ops[k].type = "RESULT_ID"
                /\ log[i].ops[k].index =
                     spvOpcodeResultIdIndex(
                       spvOpcodeTableValueLookup(log[i].opcode)) + 1
      /\ log[i].line =
           C6_ExpectedLine(spvOpcodeTableValueLookup(log[i].opcode),
                           log[i].ops)

\* A module decoded with success that holds an instruction whose result id
\* follows a result type, and one with a string of four words.
C6_Witness ==
  /\ ToTextSucceeded
  /\ \E i \in DOMAIN log :
       /\ log[i].opcode = OpExtInst
       /\ C6_Decoded(i)
       /\ log[i].line[1] = Tok("id", "%", WordOf(2))
  /\ \E i \in DOMAIN log :
       /\ log[i].opcode = OpExtInstImport
       /\ \E k \in DOMAIN log[i].ops : log[i].ops[k].consumed = 4

\* The lines of the logged instructions before the last, each ended by a
\* newline.
RECURSIVE C7_Lines(_)
C7_Lines(entries) ==
  IF Len(entries) <= 1 THEN <<>>
  ELSE Head(entries).line \o <<Txt("\n")>> \o C7_Lines(Tail(entries))

\* The standard output holds the header block and the lines of the
\* instructions decoded before the failing one.
C7_Printed ==
  /\ Len(sink) >= 5 + Len(C7_Lines(log))
  /\ sink[1] = Txt("; SPIR-V\n")
  /\ <<sink[2][2], sink[3][2], sink[4][2], sink[5][2]>> =
       <<"; Version: ", "; Generator: ", "; Bound: ", "; Schema: ">>
  /\ SubSeq(sink, 6, 5 + Len(C7_Lines(log))) = C7_Lines(log)

\* C7 as stated: when spvBinaryToText returns an error, *pText is unwritten
\* and no text has reached the caller or the standard output, in either
\* mode.
C7_NothingDelivered == ToTextFailed => text = <<>> /\ sink = <<>>

\* C7: when spvBinaryToText returns an error, *pText is unwritten; without
\* SPV_BINARY_TO_TEXT_OPTION_PRINT nothing has reached the standard output,
\* and with it the standard output holds nothing when the error precedes the
\* loop, and the header block and the lines of the earlier instructions when
\* an instruction fails.
C7_NoTextReturned ==
  ToTextFailed =>
    /\ text = <<>>
    /\ ~args.print => sink = <<>>
    /\ log = <<>> => sink = <<>>
    /\ (args.print /\ log # <<>>) => C7_Printed

\* The second instruction of a module fails without the print option, after
\* the header block and a line were written to sstream.
C7_Witness ==
  /\ ToTextFailed
  /\ ~args.print
  /\ Len(log) = 2
  /\ Len(sstream) > 5
  /\ log[1].decoded = "SPV_SUCCESS"

\* The same with the print option.
C7_WitnessPrint ==
  /\ ToTextFailed
  /\ args.print
  /\ Len(log) = 2
  /\ log[1].decoded = "SPV_SUCCESS"

\* The first word of the binary holds neither order of the magic number.
C8_BadMagic ==
  /\ code # <<>>
  /\ code[1] # <<3, 2, 35, 7>>
  /\ code[1] # <<7, 35, 2, 3>>

\* C8: spvBinaryEndianness, given a place for the order, answers from the
\* first word's bytes alone: little for 03 02 23 07, big for 07 23 02 03,
\* SPV_ERROR_INVALID_BINARY for any other first word and for an empty
\* binary; and spvBinaryToText on a binary whose first word is neither ends
\* with SPV_ERROR_INVALID_BINARY having read no word after the first, decoded
\* no instruction and written no text.
C8_EndiannessFromFirstWord ==
  /\ (pc = "endianness" /\ args.pText) =>
       /\ readMax <= 0
       /\ CASE code = <<>> ->
                 result = "SPV_ERROR_INVALID_BINARY"
            [] code # <<>> /\ code[1] = <<3, 2, 35, 7>> ->
                 result = "SPV_SUCCESS" /\ endian = "little"
            [] code # <<>> /\ code[1] = <<7, 35, 2, 3>> ->
                 result = "SPV_SUCCESS" /\ endian = "big"
            [] OTHER ->
                 result = "SPV_ERROR_INVALID_BINARY"
  /\ (ToTextReturned /\ ValidArgs /\ C8_BadMagic) =>
       /\ result = "SPV_ERROR_INVALID_BINARY"
       /\ readMax <= 0
       /\ log = <<>>
       /\ sink = <<>> /\ sstream = <<>> /\ text = <<>>

\* spvBinaryToText has returned from a module whose first word is 0xDEADBEEF
\* and which holds an instruction.
C8_Witness ==
  /\ ToTextReturned
  /\ ValidArgs
  /\ code[1] = <<239, 190, 173, 222>>
  /\ Len(code) > 5

\* C9: every word is normalized once between the buffer and its use: the
\* word count and the opcode spvBinaryDecodeOpcode splits from the first word
\* copied into the instruction are those the module loop split from the
\* buffer, so that a module stored in the order opposite to the host's
\* decodes as its twin in the host's order does.
C9_NormalizedOnce ==
  \A i \in DOMAIN log :
    log[i].words # <<>> =>
      /\ log[i].seen.wordCount = log[i].wordCount
      /\ log[i].seen.opcode = log[i].opcode

\* The same for the modules stored in the host's byte order.
C9_HostOrderNormalized == endian = I32_ENDIAN_HOST => C9_NormalizedOnce

\* C10: for OpSwitch with no nested descriptor active, every operand past the
\* fixed operands resolves to a kind without the process aborting, and the
\* kinds alternate literal, target, literal, target from the first word past
\* the fixed operands.
C10_SwitchPairsAlternate ==
  /\ pc # "aborted"
  /\ \A i \in DOMAIN log :
       \A k \in DOMAIN log[i].ops :
         log[i].ops[k].switchCase =>
           log[i].ops[k].type =
             IF (log[i].ops[k].index - log[i].seen.entry.wordCount) % 2 = 0
             THEN "LITERAL" ELSE "ID"

\* The same for the builds that compile assert() out.
C10_AlternateWhenNoAssert ==
  ndebug =>
    \A i \in DOMAIN log :
      \A k \in DOMAIN log[i].ops :
        log[i].ops[k].switchCase =>
          log[i].ops[k].type =
            IF (log[i].ops[k].index - log[i].seen.entry.wordCount) % 2 = 0
            THEN "LITERAL" ELSE "ID"

\* The same for the builds that keep assert().
C10_NoAbortWhenAssert == ~ndebug => pc # "aborted"

-----------------------------------------------------------------------------
(* Termination of spvBinaryToText. *)

\* The guard of the module loop, line 433: the next iteration can run.
LoopGuard == pc = "loop" /\ position < Len(code)

\* The call is one sequential pass: once begun, the loop takes its next
\* iteration and the code after the loop runs.  The fairness of the loop is
\* weak fairness with the enabling condition written out as LoopGuard (an
\* iteration always appends to the log, so it is enabled exactly there).
LiveSpec ==
  /\ Init
  /\ [][Next]_vars
  /\ ([]<>(~LoopGuard) \/ []<><<spvBinaryToTextLoop>>_vars)
  /\ WF_vars(spvBinaryToTextEnd)

\* Iteration i of the module loop did not fail: the loop went on after it.
C11_WentOn(i) == i < Len(log) \/ pc = "loop"

\* Every iteration that did not fail advanced the cursor by at least one
\* word, and an instruction that declares no word is rejected.
C11_LoopAdvances ==
  \A i \in DOMAIN log :
    /\ C11_WentOn(i) => log[i].endPos >= log[i].start + 1
    /\ log[i].wordCount = 0 =>
         /\ i = Len(log)
         /\ pc = "done"
         /\ result = "SPV_ERROR_INVALID_BINARY"

\* The cursor never decreases: an iteration starts where the one before it
\* ended, at or after the word it started at.
C11_CursorMonotone ==
  /\ \A i \in DOMAIN log :
       /\ log[i].endPos >= log[i].start
       /\ log[i].start = IF i = 1 THEN 5 ELSE log[i - 1].endPos
  /\ pc = "loop" =>
       position = IF log = <<>> THEN 5 ELSE log[Len(log)].endPos

\* The index of the operand loop strictly increases, stays under the word
\* count the decoder split, and reaches it when the decoder returns success.
C11_OperandIndexIncreases ==
  \A i \in DOMAIN log :
    /\ \A k \in DOMAIN log[i].ops :
         /\ log[i].ops[k].index >= 1
         /\ log[i].ops[k].index < log[i].seen.wordCount
         /\ k > 1 => log[i].ops[k].index > log[i].ops[k - 1].index
    /\ (log[i].decoded = "SPV_SUCCESS" /\ log[i].ops # <<>>) =>
         log[i].ops[Len(log[i].ops)].index
           + log[i].ops[Len(log[i].ops)].consumed >= log[i].seen.wordCount

\* The call is still running, or has returned success or an error.
C11_RunningOrReturned ==
  \/ pc \in {"idle", "loop", "endianness"}
  \/ pc = "done" /\ result # "none"

\* C11: spvBinaryToText ends in success or in an error on every buffer: a
\* call that has stopped has returned a result, every iteration of the
\* module loop that does not fail advances the cursor by at least one word
\* (a declared word count of 0 is rejected), the cursor never decreases, and
\* the index of the operand loop strictly increases up to the word count.
C11_Terminates ==
  /\ C11_RunningOrReturned
  /\ C11_LoopAdvances
  /\ C11_CursorMonotone
  /\ C11_OperandIndexIncreases

\* The same for the builds that compile assert() out.
C11_TerminatesWhenNoAssert == ndebug => C11_Terminates

\* The steps of the loop, whatever the build.
C11_Steps ==
  /\ C11_LoopAdvances
  /\ C11_CursorMonotone
  /\ C11_OperandIndexIncreases

\* A call that entered the loop returns, in the builds that compile assert()
\* out.
C11_ReturnsWhenNoAssert == (ndebug /\ pc = "loop") ~> (pc = "done")

\* A call that entered the loop returns, whatever the build.
C11_Returns == (pc = "loop") ~> (pc = "done")

====
